---- MODULE Spec2Model ----
(***************************************************************************)
(* A model of BagSplitter.split_rosbag (src/rosbag_tools/split/splitter.py)*)
(* as a state machine: one action per statement group of the method, the   *)
(* filesystem, the output writers and the source reader as environment.    *)
(***************************************************************************)
EXTENDS Integers, Sequences, FiniteSets, TLC

\* ------------------------------------------------------------------ bounds

\* Messages the source reader yields at most.
MaxMsgs == 3
\* Requested cutpoints at most.
MaxCuts == 2
\* Longest recording, in seconds (offsets are given in seconds).
MaxSecs == 2
\* Significand width of the model's floating point numbers (53 in CPython).
FloatBits == 3
\* Nanoseconds per second, the 1e9 of the source, scaled down so that the
\* timestamps stay small.
NsPerSec == 2

\* ----------------------------------------------- Python numbers (int, float)

RECURSIVE Pow2(_)
Pow2(n) == IF n = 0 THEN 1 ELSE 2 * Pow2(n - 1)

Abs(x) == IF x < 0 THEN -x ELSE x

\* The integers below this are floats, all of them.
MaxExactInt == Pow2(FloatBits)

\* The spacing of the floats around magnitude a: 1 below 2^FloatBits, then
\* doubling with every binade.
RECURSIVE Ulp(_)
Ulp(a) == IF a < MaxExactInt THEN 1 ELSE 2 * Ulp(a \div 2)

\* int -> float, and the rounding of a float result: to the nearest float,
\* ties to the even significand.
FloatRound(x) ==
    LET a == Abs(x)
        u == Ulp(a)
        q == a \div u
        r == a % u
        m == IF 2 * r < u THEN q
             ELSE IF 2 * r > u THEN q + 1
             ELSE IF q % 2 = 0 THEN q ELSE q + 1
    IN  IF x < 0 THEN -(m * u) ELSE m * u

PyInt(v) == [float |-> FALSE, v |-> v]
PyFloat(v) == [float |-> TRUE, v |-> v]

\* a + b: exact on two ints; with a float operand the int is converted and
\* the sum is rounded.
PyAdd(a, b) ==
    IF a.float \/ b.float
    THEN PyFloat(FloatRound(FloatRound(a.v) + FloatRound(b.v)))
    ELSE PyInt(a.v + b.v)

\* a * b, likewise.
PyMul(a, b) ==
    IF a.float \/ b.float
    THEN PyFloat(FloatRound(FloatRound(a.v) * FloatRound(b.v)))
    ELSE PyInt(a.v * b.v)

\* Comparisons of int and float are exact in Python.
PyLt(a, b) == a.v < b.v
PyLe(a, b) == a.v <= b.v

\* ------------------------------------------------------------------- paths

\* A path: the stem of its name, the digits appended to the stem, its suffix.
Suffixes == {".bag", ""}

MkPath(stem, digits, suffix) == [stem |-> stem, digits |-> digits, suffix |-> suffix]

\* base_path.with_name(base_path.stem + str(outbag_ctr) + base_path.suffix)
ResolvePath(base, ctr) == [base EXCEPT !.digits = Append(@, ctr)]

\* Path(filename).suffix == ".bag"
IsRos1Path(p) == p.suffix = ".bag"

\* What a path holds on disk.
Absent == [kind |-> "absent", by |-> "none"]
Kinds == {"file", "dir_db3", "dir_other"}
Pre(kind) == [kind |-> kind, by |-> "pre"]

PathExists(f, p) == f[p].kind # "absent"

\* ------------------------------------------------------------------ inputs

BookkeepingTopic == "/events/write_split"

\* The channel tables of the source logs considered: without and with the
\* bookkeeping channel.
PlainTable == << [id |-> 1, topic |-> "/a"] >>
SplitTable == << [id |-> 1, topic |-> BookkeepingTopic], [id |-> 2, topic |-> "/a"] >>

\* Recordings start at 0, or at a time no float holds exactly.
StartTimes == {0, MaxExactInt + 1}
\* Durations, in nanoseconds.
Durations == {0, MaxSecs * NsPerSec}

\* Offsets requested, in seconds: in range, just below and just above.
Offsets == (-1)..(MaxSecs + 1)

RECURSIVE SeqsUpTo(_, _)
SeqsUpTo(S, n) ==
    IF n = 0 THEN { << >> }
    ELSE LET shorter == SeqsUpTo(S, n - 1)
         IN  shorter \cup { Append(s, x) : s \in { t \in shorter : Len(t) = n - 1 }, x \in S }

BasePath(suffix) == MkPath("out", << >>, suffix)

\* Every path the operation can resolve, and the input.
ExportPaths(base) == { ResolvePath(base, k) : k \in 1..(MaxCuts + 1) }

NoMsg == [conn |-> 0, timestamp |-> 0, data |-> 0]

VARIABLES
    \* the object after construction, and the arguments of split_rosbag
    bag_start, bag_end, inbag, in_timestamps, outbag_path, force_out, connections,
    \* the filesystem: now, and when split_rosbag was called
    fs, fs0,
    \* the locals of split_rosbag
    pc, error, timestamps, outbag_ctr, export_path, s_cliptstamp, e_cliptstamp,
    writer, conn_map, is_ros1_reader, is_ros1_writer, cur,
    \* the source stream as read so far, and the output logs opened so far
    stream, logs

vars == << bag_start, bag_end, inbag, in_timestamps, outbag_path, force_out, connections,
           fs, fs0, pc, error, timestamps, outbag_ctr, export_path, s_cliptstamp,
           e_cliptstamp, writer, conn_map, is_ros1_reader, is_ros1_writer, cur,
           stream, logs >>

inputs == << bag_start, bag_end, inbag, in_timestamps, outbag_path, force_out,
             connections, fs0 >>

\* --------------------------------------------------------- pure operators

\* time_ns = ts * 1e9
TimeNs(ts) == PyMul(PyInt(ts), PyFloat(NsPerSec))

\* The two tests of _check_cutoff_limits on one offset.
BeforeStart(ts, start) == PyLt(PyAdd(TimeNs(ts), PyInt(start)), PyInt(start))
AfterEnd(ts, start, end) == PyLt(PyInt(end), PyAdd(TimeNs(ts), PyInt(start)))

\* _check_cutoff_limits raises InvalidTimestampError.
CutoffLimitsRaise(tss, start, end) ==
    \E i \in 1..Len(tss) : BeforeStart(tss[i], start) \/ AfterEnd(tss[i], start, end)

\* delete_rosbag without its test of what the path holds.
DeleteRosbagUnchecked(f, p) == [raised |-> "none", fs |-> [f EXCEPT ![p] = Absent]]

\* delete_rosbag: the filesystem after it, and whether it raised ValueError.
DeleteRosbag(f, p) ==
    LET is_ros1 == f[p].kind = "file" /\ p.suffix = ".bag"
        is_ros2 == f[p].kind = "dir_db3"
    IN  IF is_ros1 \/ is_ros2
        THEN [raised |-> "none", fs |-> [f EXCEPT ![p] = Absent]]
        ELSE [raised |-> "InvalidExistingPath", fs |-> f]

\* _check_export_path without its comparison with the input path.
CheckExportPathNoCollision(f, p, input, force) ==
    IF PathExists(f, p) /\ ~force THEN [raised |-> "DestinationExists", fs |-> f]
    ELSE IF PathExists(f, p) /\ force THEN DeleteRosbag(f, p)
    ELSE [raised |-> "none", fs |-> f]

\* _check_export_path: what it raises ("none": it returns) and the
\* filesystem after it.  PathCollision and DestinationExists are both
\* FileExistsError, InvalidExistingPath is delete_rosbag's ValueError.
CheckExportPath(f, p, input, force) ==
    IF p = input THEN [raised |-> "PathCollision", fs |-> f]
    ELSE IF PathExists(f, p) /\ ~force THEN [raised |-> "DestinationExists", fs |-> f]
    ELSE IF PathExists(f, p) /\ force THEN DeleteRosbag(f, p)
    ELSE [raised |-> "none", fs |-> f]

\* set_writer_connections, from the i-th source connection on: the routing
\* map and the topics registered in the writer, in order.  The writer numbers
\* its connections as they are added.
RECURSIVE RegisterFrom(_, _, _, _)
RegisterFrom(conns, i, map, reg) ==
    IF i > Len(conns) THEN [map |-> map, reg |-> reg]
    ELSE IF conns[i].topic = BookkeepingTopic THEN RegisterFrom(conns, i + 1, map, reg)
    ELSE RegisterFrom(conns, i + 1,
                      map @@ (conns[i].id :> [id |-> Len(reg) + 1, topic |-> conns[i].topic]),
                      Append(reg, conns[i].topic))

\* set_writer_connections without its test of the topic.
RECURSIVE RegisterAllFrom(_, _, _, _)
RegisterAllFrom(conns, i, map, reg) ==
    IF i > Len(conns) THEN [map |-> map, reg |-> reg]
    ELSE RegisterAllFrom(conns, i + 1,
                         map @@ (conns[i].id :> [id |-> Len(reg) + 1, topic |-> conns[i].topic]),
                         Append(reg, conns[i].topic))

SetWriterConnectionsAll(conns) == RegisterAllFrom(conns, 1, << >>, << >>)

SetWriterConnections(conns) == RegisterFrom(conns, 1, << >>, << >>)

\* The window with its lower bound excluded.
InWindowStrictStart(s, t, e) == PyLt(s, PyInt(t)) /\ PyLe(PyInt(t), e)

\* The window with its upper bound excluded.
InWindowStrictEnd(s, t, e) == PyLe(s, PyInt(t)) /\ PyLt(PyInt(t), e)

\* s_cliptstamp <= timestamp <= e_cliptstamp
InWindow(s, t, e) == PyLe(s, PyInt(t)) /\ PyLe(PyInt(t), e)

\* Writer(export_path); writer.open(): an open log, not closed yet
NewLog(p, ctr) ==
    [path |-> p, seg |-> ctr, open |-> TRUE, closes |-> 0, conns |-> << >>, records |-> << >>]

\* ---------------------------------------------------------------- initial

ValidInput(p) == Pre(IF IsRos1Path(p) THEN "file" ELSE "dir_db3")

\* The paths the model keeps on disk.
DiskPaths(base, input) == ExportPaths(base) \cup {base, input}

EmptyDisk(base, input) ==
    [p \in DiskPaths(base, input) |-> IF p = input THEN ValidInput(input) ELSE Absent]

\* The disks considered: the input, and at most one of the resolvable paths
\* holding something beforehand (a file, a log directory, another directory).
Disks(base, input) ==
    {EmptyDisk(base, input)} \cup
    { [EmptyDisk(base, input) EXCEPT ![p] = Pre(k)] :
        p \in ExportPaths(base) \ {input}, k \in Kinds }

\* Cutpoint lists of the path scenarios: none, one, two, one out of range.
PathCuts == { << >>, <<0>>, <<0, 0>>, <<-1>> }

\* Every recording and cutpoint list, from a directory log that holds the
\* bookkeeping channel, on an empty disk.
TimingScenario ==
    /\ bag_start \in StartTimes
    /\ \E d \in Durations : bag_end = bag_start + d
    /\ in_timestamps \in SeqsUpTo(Offsets, MaxCuts)
    /\ inbag = MkPath("in", << >>, "")
    /\ outbag_path = BasePath("")
    /\ force_out = FALSE
    /\ connections = SplitTable
    /\ fs0 = EmptyDisk(outbag_path, inbag)

\* Every placing of the input, the output and what the disk holds, for a
\* recording of one second.
PathScenario ==
    /\ bag_start = 0
    /\ bag_end = NsPerSec
    /\ in_timestamps \in PathCuts
    /\ \E s \in Suffixes : outbag_path = BasePath(s)
    /\ inbag \in { MkPath("in", << >>, s) : s \in Suffixes }
                 \cup {outbag_path} \cup ExportPaths(outbag_path)
    /\ force_out \in BOOLEAN
    /\ connections = PlainTable
    /\ fs0 \in Disks(outbag_path, inbag)

Init ==
    /\ TimingScenario \/ PathScenario
    /\ fs = fs0
    /\ pc = "check_cutoff"
    /\ error = "none"
    /\ timestamps = << >>
    /\ outbag_ctr = 0
    /\ export_path = outbag_path
    /\ s_cliptstamp = PyInt(0)
    /\ e_cliptstamp = PyInt(0)
    /\ writer = 0
    /\ conn_map = << >>
    /\ is_ros1_reader = IsRos1Path(inbag)
    /\ is_ros1_writer = FALSE
    /\ cur = NoMsg
    /\ stream = << >>
    /\ logs = << >>

\* ----------------------------------------------------------------- actions

Raise(e) == /\ pc' = "failed"
            /\ error' = e

\* The check of the first offset alone.
CheckFirstCutoffOnly ==
    /\ pc = "check_cutoff"
    /\ IF CutoffLimitsRaise(IF in_timestamps = << >> THEN << >> ELSE << in_timestamps[1] >>,
                            bag_start, bag_end)
       THEN Raise("InvalidTimestampError")
       ELSE pc' = "open_reader" /\ error' = error
    /\ UNCHANGED << inputs, fs, timestamps, outbag_ctr, export_path, s_cliptstamp,
                    e_cliptstamp, writer, conn_map, is_ros1_reader, is_ros1_writer,
                    cur, stream, logs >>

\* line 176: self._check_cutoff_limits(timestamps)
CheckCutoffLimits ==
    /\ pc = "check_cutoff"
    /\ IF CutoffLimitsRaise(in_timestamps, bag_start, bag_end)
       THEN Raise("InvalidTimestampError")
       ELSE pc' = "open_reader" /\ error' = error
    /\ UNCHANGED << inputs, fs, timestamps, outbag_ctr, export_path, s_cliptstamp,
                    e_cliptstamp, writer, conn_map, is_ros1_reader, is_ros1_writer,
                    cur, stream, logs >>

\* lines 179-186: the reader class, the reader, the first export path
OpenReader ==
    /\ pc = "open_reader"
    /\ is_ros1_reader' = IsRos1Path(inbag)
    /\ outbag_ctr' = 1
    /\ export_path' = ResolvePath(outbag_path, 1)
    /\ pc' = "check_first"
    /\ UNCHANGED << inputs, fs, error, timestamps, s_cliptstamp, e_cliptstamp, writer,
                    conn_map, is_ros1_writer, cur, stream, logs >>

\* line 188: self._check_export_path(export_path, force_out)
CheckFirstPath ==
    /\ pc = "check_first"
    /\ LET r == CheckExportPath(fs, export_path, inbag, force_out)
       IN  /\ fs' = r.fs
           /\ IF r.raised # "none"
              THEN Raise(r.raised)
              ELSE pc' = "select_writer" /\ error' = error
    /\ UNCHANGED << inputs, timestamps, outbag_ctr, export_path, s_cliptstamp,
                    e_cliptstamp, writer, conn_map, is_ros1_reader, is_ros1_writer,
                    cur, stream, logs >>

\* The writer class chosen without the comparison with the reader's.
SelectWriterUnchecked ==
    /\ pc = "select_writer"
    /\ is_ros1_writer' = IsRos1Path(export_path)
    /\ pc' = "open_writer"
    /\ UNCHANGED << inputs, fs, error, timestamps, outbag_ctr, export_path, s_cliptstamp,
                    e_cliptstamp, writer, conn_map, is_ros1_reader, cur, stream, logs >>

\* lines 190-195: the writer class, and the refusal to convert
SelectWriter ==
    /\ pc = "select_writer"
    /\ is_ros1_writer' = IsRos1Path(export_path)
    /\ IF is_ros1_reader # is_ros1_writer'
       THEN Raise("UnsupportedConversion")
       ELSE pc' = "open_writer" /\ error' = error
    /\ UNCHANGED << inputs, fs, timestamps, outbag_ctr, export_path, s_cliptstamp,
                    e_cliptstamp, writer, conn_map, is_ros1_reader, cur, stream, logs >>

\* Writer(export_path); writer.open(): a new log on disk, of the writer's
\* family; then conn_map = self.set_writer_connections(writer, ...)
OpenAndRegister(at, ros1, next) ==
    /\ pc = at
    /\ LET r == SetWriterConnections(connections)
       IN  /\ conn_map' = r.map
           /\ logs' = Append(logs, [NewLog(export_path, outbag_ctr) EXCEPT !.conns = r.reg])
    /\ writer' = Len(logs) + 1
    /\ fs' = [fs EXCEPT ![export_path] =
                [kind |-> IF ros1 THEN "file" ELSE "dir_db3", by |-> "split"]]
    /\ pc' = next
    /\ UNCHANGED << inputs, error, timestamps, outbag_ctr, export_path, s_cliptstamp,
                    e_cliptstamp, is_ros1_reader, cur, stream >>

\* lines 197-199
OpenWriter ==
    /\ is_ros1_writer' = is_ros1_writer
    /\ OpenAndRegister("open_writer", is_ros1_writer, "convert")

\* lines 201-205: the absolute cutpoints, the sentinel, the first window
ConvertTimestamps ==
    /\ pc = "convert"
    /\ timestamps' = [i \in 1..Len(in_timestamps) |-> TimeNs(in_timestamps[i])]
                        \o << PyInt(bag_end) >>
    /\ s_cliptstamp' = PyInt(bag_start)
    /\ e_cliptstamp' = PyAdd(PyInt(bag_start), timestamps'[1])
    /\ pc' = "loop"
    /\ UNCHANGED << inputs, fs, error, outbag_ctr, export_path, writer, conn_map,
                    is_ros1_reader, is_ros1_writer, cur, stream, logs >>

\* reader.messages(): what the source log can yield next, in non-decreasing
\* timestamp order within the recording, on a channel of its table.
LastTime == IF stream = << >> THEN bag_start ELSE stream[Len(stream)].timestamp

NextMessages ==
    IF Len(stream) >= MaxMsgs THEN {}
    ELSE { [conn |-> connections[c].id, timestamp |-> t, data |-> Len(stream) + 1] :
             c \in 1..Len(connections), t \in LastTime..bag_end }

\* The write with the source's channel id in place of the mapped one.
WriteMessageUnmapped ==
    /\ pc = "loop"
    /\ \E m \in NextMessages :
        /\ InWindow(s_cliptstamp, m.timestamp, e_cliptstamp)
        /\ m.conn \in DOMAIN conn_map
        /\ stream' = Append(stream, m)
        /\ logs' = [logs EXCEPT ![writer].records =
                      Append(@, [conn |-> m.conn,
                                 timestamp |-> m.timestamp, data |-> m.data])]
    /\ UNCHANGED << inputs, fs, pc, error, timestamps, outbag_ctr, export_path,
                    s_cliptstamp, e_cliptstamp, writer, conn_map, is_ros1_reader,
                    is_ros1_writer, cur >>

\* lines 207-209: a message inside the window is written through the map
WriteMessage ==
    /\ pc = "loop"
    /\ \E m \in NextMessages :
        /\ InWindow(s_cliptstamp, m.timestamp, e_cliptstamp)
        /\ m.conn \in DOMAIN conn_map
        /\ stream' = Append(stream, m)
        /\ logs' = [logs EXCEPT ![writer].records =
                      Append(@, [conn |-> conn_map[m.conn].id,
                                 timestamp |-> m.timestamp, data |-> m.data])]
    /\ UNCHANGED << inputs, fs, pc, error, timestamps, outbag_ctr, export_path,
                    s_cliptstamp, e_cliptstamp, writer, conn_map, is_ros1_reader,
                    is_ros1_writer, cur >>

\* line 209: conn_map[conn.id] of a channel the map does not hold
RouteFails ==
    /\ pc = "loop"
    /\ \E m \in NextMessages :
        /\ InWindow(s_cliptstamp, m.timestamp, e_cliptstamp)
        /\ m.conn \notin DOMAIN conn_map
        /\ stream' = Append(stream, m)
        /\ cur' = m
    /\ Raise("KeyError")
    /\ UNCHANGED << inputs, fs, timestamps, outbag_ctr, export_path, s_cliptstamp,
                    e_cliptstamp, writer, conn_map, is_ros1_reader, is_ros1_writer, logs >>

\* lines 210-218: a message outside the window starts the next segment: the
\* counter, the window, the export path and its check
Rotate ==
    /\ pc = "loop"
    /\ \E m \in NextMessages :
        /\ ~InWindow(s_cliptstamp, m.timestamp, e_cliptstamp)
        /\ stream' = Append(stream, m)
        /\ cur' = m
        /\ outbag_ctr' = outbag_ctr + 1
        /\ s_cliptstamp' = PyInt(m.timestamp)
        /\ IF outbag_ctr' > Len(timestamps)
           THEN /\ Raise("IndexError")
                /\ UNCHANGED << e_cliptstamp, export_path, fs >>
           ELSE /\ e_cliptstamp' = PyAdd(PyInt(bag_start), timestamps[outbag_ctr'])
                /\ export_path' = ResolvePath(outbag_path, outbag_ctr')
                /\ LET r == CheckExportPath(fs, export_path', inbag, force_out)
                   IN  /\ fs' = r.fs
                       /\ IF r.raised # "none"
                          THEN Raise(r.raised)
                          ELSE pc' = "close_writer" /\ error' = error
    /\ UNCHANGED << inputs, timestamps, writer, conn_map, is_ros1_reader,
                    is_ros1_writer, logs >>

\* writer.close()
Close(at, next) ==
    /\ pc = at
    /\ logs' = [logs EXCEPT ![writer].open = FALSE, ![writer].closes = @ + 1]
    /\ pc' = next
    /\ UNCHANGED << inputs, fs, error, timestamps, outbag_ctr, export_path, s_cliptstamp,
                    e_cliptstamp, writer, conn_map, is_ros1_reader, is_ros1_writer,
                    cur, stream >>

\* The rotation without its writer.close().
CloseWriterSkipped ==
    /\ pc = "close_writer"
    /\ pc' = "reopen_writer"
    /\ UNCHANGED << inputs, fs, error, timestamps, outbag_ctr, export_path, s_cliptstamp,
                    e_cliptstamp, writer, conn_map, is_ros1_reader, is_ros1_writer,
                    cur, stream, logs >>

\* line 220
CloseWriter == Close("close_writer", "reopen_writer")

\* lines 222-225: the writer class of outbag_path, the next writer, its map;
\* then line 226 and the next message
ReopenWriter ==
    /\ is_ros1_writer' = IsRos1Path(outbag_path)
    /\ OpenAndRegister("reopen_writer", is_ros1_writer', "loop")

\* The return without line 228.
EndOfStreamNoClose ==
    /\ pc = "loop"
    /\ pc' = "done"
    /\ UNCHANGED << inputs, fs, error, timestamps, outbag_ctr, export_path, s_cliptstamp,
                    e_cliptstamp, writer, conn_map, is_ros1_reader, is_ros1_writer,
                    cur, stream, logs >>

\* the source is exhausted: the loop and the reader's block are left, and
\* line 228 closes the writer
EndOfStream == Close("loop", "done")

Next ==
    \/ CheckCutoffLimits
    \/ OpenReader
    \/ CheckFirstPath
    \/ SelectWriter
    \/ OpenWriter
    \/ ConvertTimestamps
    \/ WriteMessage
    \/ RouteFails
    \/ Rotate
    \/ CloseWriter
    \/ ReopenWriter
    \/ EndOfStream

Spec == Init /\ [][Next]_vars

\* ------------------------------------------------------ the claims' terms

Ended == pc \in {"done", "failed"}

\* Nothing on disk has changed and no output log has been opened.
Untouched == fs = fs0 /\ logs = << >>

Sorted(tss) == \A i, j \in 1..Len(tss) : i < j => tss[i] <= tss[j]

\* Where the records carrying payload d were written: (log, position).
Places(d) ==
    { pl \in UNION { {l} \X (1..Len(logs[l].records)) : l \in 1..Len(logs) } :
        logs[pl[1]].records[pl[2]].data = d }

\* The k-th absolute cutpoint as the operation computes it, and the segment
\* a timestamp belongs to: the first whose cutpoint is not below it.
AbsoluteCut(k) == PyAdd(PyInt(bag_start), TimeNs(in_timestamps[k]))

SegmentOf(t) ==
    LET ks == { k \in 1..Len(in_timestamps) : PyLe(PyInt(t), AbsoluteCut(k)) }
    IN  IF ks = {} THEN Len(in_timestamps) + 1
        ELSE CHOOSE k \in ks : \A k2 \in ks : k <= k2

\* An offset outside the recording: negative, or beyond its duration.
OffsetOutOfRange(ts) == ts < 0 \/ ts * NsPerSec > bag_end - bag_start

TopicOf(id) == (CHOOSE i \in 1..Len(connections) : connections[i].id = id)

\* The records of log l, each with its channel's topic, and the stream so.
RecordsOf(l) ==
    [j \in 1..Len(logs[l].records) |->
        [topic |-> logs[l].conns[logs[l].records[j].conn],
         timestamp |-> logs[l].records[j].timestamp,
         data |-> logs[l].records[j].data]]

SourceRecords ==
    [i \in 1..Len(stream) |->
        [topic |-> connections[TopicOf(stream[i].conn)].topic,
         timestamp |-> stream[i].timestamp,
         data |-> stream[i].data]]

\* What delete_rosbag recognises as a log.
IsLog(f, p) == (f[p].kind = "file" /\ p.suffix = ".bag") \/ f[p].kind = "dir_db3"

\* The resolved paths whose check has run.
PreparedPaths ==
    IF error = "IndexError" THEN { ResolvePath(outbag_path, k) : k \in 1..(outbag_ctr - 1) }
    ELSE IF pc = "check_first" THEN {}
    ELSE { ResolvePath(outbag_path, k) : k \in 1..outbag_ctr }

CrossFamily == IsRos1Path(inbag) # IsRos1Path(outbag_path)

\* The recording was read from its first message, the one at start_time.
FromStart == stream # << >> /\ stream[1].timestamp = bag_start

\* ---------------------------------------------------------------------- C1
\* C1: on completion with sorted cutpoints every source message has been
\* written to exactly one output segment.
C1_Partition ==
    (pc = "done" /\ Sorted(in_timestamps) /\ FromStart) =>
        \A i \in 1..Len(stream) : Cardinality(Places(stream[i].data)) = 1

\* ---------------------------------------------------------------------- C2
\* C2 as stated: on completion the number of output logs opened is
\* len(cutpoints) + 1, whether or not a message crossed every cutpoint.
C2_SegmentCountExact ==
    (pc = "done" /\ FromStart) => Len(logs) = Len(in_timestamps) + 1

\* C2 as amended: at most len(cutpoints) + 1 logs are opened, at least one on
\* completion, and log k + 1 only once a message above the k-th cutpoint has
\* been read.
C2_SegmentCount ==
    /\ Len(logs) <= Len(in_timestamps) + 1
    /\ (pc = "done" => Len(logs) >= 1)
    /\ \A l \in 2..Len(logs) :
          \E i \in 1..Len(stream) : PyLt(AbsoluteCut(l - 1), PyInt(stream[i].timestamp))

\* A completed split with a cutpoint at the full duration of a recording
\* read to its end, and no trailing log.
C2_Witness ==
    /\ pc = "done"
    /\ Len(in_timestamps) = 1
    /\ bag_end > bag_start
    /\ TimeNs(in_timestamps[1]).v = bag_end - bag_start
    /\ stream # << >>
    /\ stream[Len(stream)].timestamp = bag_end
    /\ Len(logs) = 1

\* ---------------------------------------------------------------------- C3
\* C3: on completion with sorted cutpoints every source message is in the
\* segment of the first cutpoint that is not below its timestamp.
C3_SegmentAssignment ==
    (pc = "done" /\ Sorted(in_timestamps) /\ FromStart) =>
        \A i \in 1..Len(stream) :
            \E pl \in Places(stream[i].data) :
                logs[pl[1]].seg = SegmentOf(stream[i].timestamp)

\* ---------------------------------------------------------------------- C4
\* C4: a split with no cutpoints that got to open its output ends with one
\* segment holding the source stream, record for record.
C4_EmptyCutpoints ==
    (in_timestamps = << >> /\ Ended /\ logs # << >>) =>
        /\ Len(logs) = 1
        /\ RecordsOf(1) = SourceRecords

\* ---------------------------------------------------------------------- C5
\* C5: the validation raises exactly for the lists with an offset that is
\* negative or beyond the duration; 0 and the full duration pass.
C5_BoundaryInclusive ==
    pc # "check_cutoff" =>
        ((error = "InvalidTimestampError")
            <=> \E i \in 1..Len(in_timestamps) : OffsetOutOfRange(in_timestamps[i]))

\* ---------------------------------------------------------------------- C6
\* C6: with a cutpoint the validation rejects, the operation goes no further
\* than the validation: it ends with the out-of-range error, no export path
\* resolved or checked, nothing on disk changed, no log opened, no message
\* read.
C6_AbortBeforeOutput ==
    CutoffLimitsRaise(in_timestamps, bag_start, bag_end) =>
        /\ pc \in {"check_cutoff", "failed"}
        /\ (pc = "failed" => error = "InvalidTimestampError")
        /\ outbag_ctr = 0
        /\ Untouched
        /\ stream = << >>

\* The abort, with the overwrite flag set and a log at an output path.
C6_Witness ==
    /\ error = "InvalidTimestampError"
    /\ force_out
    /\ \E p \in ExportPaths(outbag_path) : IsLog(fs0, p)

\* ---------------------------------------------------------------------- C7
\* C7 as stated: a base path or a resolved path equal to the input makes the
\* operation fail with PathCollision, and nothing has been touched then.
C7_CollisionBeforeAnyFile ==
    /\ (outbag_path = inbag /\ Ended /\ error # "InvalidTimestampError"
           /\ \A p \in ExportPaths(outbag_path) : ~PathExists(fs0, p))
          => error = "PathCollision"
    /\ (error = "PathCollision" => Untouched)

\* C7 as amended: when the resolved path of the segment being prepared is
\* the input, the operation fails with PathCollision; the input is never
\* deleted nor opened for writing; for segment 1 nothing has been touched.
C7_Collision ==
    /\ (outbag_ctr >= 1 /\ export_path = inbag /\ pc # "check_first")
          => (pc = "failed" /\ error = "PathCollision")
    /\ (error = "PathCollision" => export_path = inbag)
    /\ (error = "PathCollision" /\ outbag_ctr = 1 => Untouched)
    /\ fs[inbag] = fs0[inbag]
    /\ \A l \in 1..Len(logs) : logs[l].path # inbag

\* A collision at the second segment, after the first was written.
C7_Witness ==
    /\ error = "PathCollision"
    /\ outbag_ctr = 2
    /\ logs[1].records # << >>

\* ---------------------------------------------------------------------- C8
\* C8: a resolved path that held a log: without the overwrite flag the
\* operation fails with DestinationExists and the log is as it was; with it,
\* the operation ends with a log of its own at that path, holding the
\* records of that segment alone.
C8_ExistingLog ==
    \A p \in PreparedPaths \ {inbag} :
        IsLog(fs0, p) =>
            IF ~force_out
            THEN error = "DestinationExists" /\ fs[p] = fs0[p]
            ELSE Ended =>
                    /\ fs[p].by = "split"
                    /\ \E l \in 1..Len(logs) :
                          /\ logs[l].path = p
                          /\ \A j \in 1..Len(logs[l].records) :
                                \E i \in 1..Len(stream) :
                                    stream[i].data = logs[l].records[j].data

\* ---------------------------------------------------------------------- C9
\* C9 as stated: a resolved path that exists and is no log makes the
\* operation fail with InvalidExistingPath, with or without the overwrite
\* flag, and what the path holds is kept.
C9_InvalidPathAnyFlag ==
    \A p \in PreparedPaths \ {inbag} :
        (PathExists(fs0, p) /\ ~IsLog(fs0, p)) =>
            error = "InvalidExistingPath" /\ fs[p] = fs0[p]

\* C9 as amended: the operation fails with InvalidExistingPath when the
\* overwrite flag is set and with DestinationExists when it is not; what the
\* path holds is kept either way.
C9_InvalidPath ==
    \A p \in PreparedPaths \ {inbag} :
        (PathExists(fs0, p) /\ ~IsLog(fs0, p)) =>
            /\ pc = "failed"
            /\ error = IF force_out THEN "InvalidExistingPath" ELSE "DestinationExists"
            /\ fs[p] = fs0[p]

\* The refusal to delete, at the second segment's path.
C9_Witness ==
    /\ error = "InvalidExistingPath"
    /\ outbag_ctr = 2
    /\ PathExists(fs, export_path)

\* --------------------------------------------------------------------- C10
\* C10: with input and output of different families no output log is ever
\* opened, no channel registered, no message read or written: the operation
\* gets no further than the choice of the writer class and fails, with
\* UnsupportedConversion unless the cutpoints or the path of segment 1 were
\* refused before.
C10_NoCrossFamily ==
    CrossFamily =>
        /\ logs = << >>
        /\ conn_map = << >>
        /\ stream = << >>
        /\ pc \in {"check_cutoff", "open_reader", "check_first", "select_writer", "failed"}
        /\ (pc = "failed" =>
              error \in {"InvalidTimestampError", "PathCollision", "DestinationExists",
                         "InvalidExistingPath", "UnsupportedConversion"})

\* The refusal itself.
C10_Witness == error = "UnsupportedConversion" /\ CrossFamily /\ Untouched

\* --------------------------------------------------------------------- C11
\* The output logs open for writing.
OpenLogs == { l \in 1..Len(logs) : logs[l].open }

\* C11: at most one output log is open at any time, and it is the one the
\* writer variable refers to; during rotation the old log is closed before
\* the next is opened; and whenever the loop can write, its writer is open.
C11_SingleOpenLog ==
    /\ Cardinality(OpenLogs) <= 1
    /\ OpenLogs \subseteq {writer}
    /\ (pc = "reopen_writer" => OpenLogs = {})
    /\ (pc = "loop" => OpenLogs = {writer})
    /\ \A l \in 1..Len(logs) : logs[l].records # << >> /\ l # writer => ~logs[l].open

\* After a rotation: the first log closed with its records, the second open
\* and written to.
C11_Witness ==
    /\ pc = "loop"
    /\ Len(logs) = 2
    /\ ~logs[1].open /\ logs[1].records # << >>
    /\ logs[2].open /\ logs[2].records # << >>

\* --------------------------------------------------------------------- C12
\* The topic of the i-th message read from the source.
SourceTopic(i) == connections[TopicOf(stream[i].conn)].topic

\* C12: no output log has the bookkeeping channel among its channels, every
\* other channel of the source is registered in every output log, and no
\* record of any output log is a message of the bookkeeping channel.
C12_BookkeepingExcluded ==
    \A l \in 1..Len(logs) :
        /\ \A j \in 1..Len(logs[l].conns) : logs[l].conns[j] # BookkeepingTopic
        /\ \A c \in 1..Len(connections) :
              connections[c].topic # BookkeepingTopic =>
                  \E j \in 1..Len(logs[l].conns) : logs[l].conns[j] = connections[c].topic
        /\ \A j \in 1..Len(logs[l].records) :
              SourceTopic(logs[l].records[j].data) # BookkeepingTopic

\* A completed split of a source whose bookkeeping channel carried a message,
\* with two logs, the second written to.
C12_Witness ==
    /\ pc = "done"
    /\ \E c \in 1..Len(connections) : connections[c].topic = BookkeepingTopic
    /\ \E i \in 1..Len(stream) : SourceTopic(i) = BookkeepingTopic
    /\ Len(logs) = 2
    /\ logs[2].records # << >>

\* --------------------------------------------------------------------- C13
\* C13: the message that triggered the last rotation, on a channel the
\* routing map holds, is the first record of the segment opened for it, with
\* the window's lower bound as its timestamp.
C13_RetryTrigger ==
    (pc = "done" /\ Len(logs) >= 2 /\ FromStart /\ cur.conn \in DOMAIN conn_map) =>
        /\ logs[writer].records # << >>
        /\ logs[writer].records[1].data = cur.data
        /\ logs[writer].records[1].timestamp = s_cliptstamp.v

\* --------------------------------------------------------------------- C14
\* C14: while segment k is the active one, the window's upper bound is
\* start_time plus the k-th offset in nanoseconds, and end_time for the
\* segment after the last cutpoint.
C14_WindowEnd ==
    pc \in {"loop", "close_writer", "reopen_writer", "done"} =>
        e_cliptstamp.v = IF outbag_ctr <= Len(in_timestamps)
                         THEN bag_start + in_timestamps[outbag_ctr] * NsPerSec
                         ELSE bag_end

\* --------------------------------------------------------------------- C15
\* C15: once the operation has returned, every output log it opened is
\* closed and was closed exactly once; no log is ever closed twice.
C15_Completion ==
    /\ \A l \in 1..Len(logs) : logs[l].closes <= 1
    /\ pc = "done" =>
          /\ logs # << >>
          /\ \A l \in 1..Len(logs) : ~logs[l].open /\ logs[l].closes = 1

\* A return after as many rotations as there are cutpoints.
C15_Witness ==
    /\ pc = "done"
    /\ Len(logs) = MaxCuts + 1
    /\ logs[Len(logs)].records # << >>

\* --------------------------------------------------------------------- C16
\* The positions of all records, and their order in the concatenation of the
\* logs by segment number.
AllPlaces == UNION { {l} \X (1..Len(logs[l].records)) : l \in 1..Len(logs) }

PlacedBefore(a, b) == a[1] < b[1] \/ (a[1] = b[1] /\ a[2] < b[2])

\* C16: the records of the output logs, taken in segment order, are source
\* messages in source order, none twice, each with its timestamp and payload
\* and on a channel of the same topic; the logs are numbered 1, 2, 3, ... and
\* the path of each is the base path with its number appended to the stem.
C16_OrderedSubsequence ==
    /\ \A a \in AllPlaces :
          LET r == logs[a[1]].records[a[2]]
          IN  /\ r.data \in 1..Len(stream)
              /\ r.data = stream[r.data].data
              /\ r.timestamp = stream[r.data].timestamp
              /\ r.conn \in 1..Len(logs[a[1]].conns)
              /\ logs[a[1]].conns[r.conn] = SourceTopic(r.data)
    /\ \A a, b \in AllPlaces :
          PlacedBefore(a, b) =>
              logs[a[1]].records[a[2]].data < logs[b[1]].records[b[2]].data
    /\ \A l \in 1..Len(logs) :
          /\ logs[l].seg = l
          /\ logs[l].path = MkPath(outbag_path.stem, << l >>, outbag_path.suffix)

\* Two logs written to, and a source message in neither.
C16_Witness ==
    /\ pc = "done"
    /\ Len(logs) = 2
    /\ logs[1].records # << >>
    /\ logs[2].records # << >>
    /\ Cardinality(AllPlaces) < Len(stream)

\* --------------------------------------------------------------------- C17
\* C17: the lookup in the routing map never fails: no message read inside
\* the active window is on a channel the map lacks, so the operation never
\* ends with KeyError.
C17_RoutingNeverFails == error # "KeyError"

\* --------------------------------------------------------------------- C18
\* C18: when the check of the path of segment 2 or later raises, no output
\* log is left open.
C18_ClosedOnFailure ==
    (/\ pc = "failed"
     /\ outbag_ctr >= 2
     /\ error \in {"PathCollision", "DestinationExists", "InvalidExistingPath"})
        => OpenLogs = {}

\* --------------------------------------------------------------------- C19
\* C19: the segment counter never exceeds len(cutpoints) + 1 and the lookup
\* of the next cutpoint at rotation is always in range: the operation never
\* ends with IndexError.
C19_CounterInRange ==
    /\ outbag_ctr <= Len(in_timestamps) + 1
    /\ error # "IndexError"
    /\ pc \in {"loop", "close_writer", "reopen_writer", "done"} =>
          outbag_ctr \in 1..Len(timestamps)

\* The last segment of an unsorted list of cutpoints, written to.
C19_Witness ==
    /\ pc = "loop"
    /\ Len(in_timestamps) = MaxCuts
    /\ ~Sorted(in_timestamps)
    /\ outbag_ctr = Len(in_timestamps) + 1
    /\ logs[writer].records # << >>

\* --------------------------------------------------------------------- C20
\* C20: when the operation fails with UnsupportedConversion, the filesystem
\* is as it was when the operation was called.
C20_ConversionLeavesDisk ==
    error = "UnsupportedConversion" => fs = fs0

====
